---- MODULE Spec2Model ----
(***************************************************************************)
(* Offline-first sync engine of QS-Vault: the Dexie sync_queue, the        *)
(* processQueue drain loop and queueChange of syncEngine (database.ts),    *)
(* and the useSync hook (performSync, the online listener, the 30 s timer, *)
(* mount and cleanup).  Every await of the code is a point where other     *)
(* callbacks may run, so every await separates two actions.                *)
(***************************************************************************)
EXTENDS Integers, Sequences, FiniteSets, TLC

\* ---------------------------------------------------------------- bounds
\* Number of queueChange calls in a behaviour (the Dexie ids stay below it).
MaxEnq == 2
\* Closures of the useSync effect that exist at once (a re-mount creates a
\* new one while a cycle of the old one may still run).
NumHooks == 1
\* processQueue runs started by queueChange that are in flight at once.
MaxDetached == 1
\* Retry ceiling of the specification's dead-letter rule (section 4.3).
Ceiling == 2
\* queueChange calls whose durable write rejects in a behaviour.
MaxReject == 1

\* ---------------------------------------------------------------- data
Hooks == 1..NumHooks
Detached == (NumHooks + 1)..(NumHooks + MaxDetached)
Runs == Hooks \cup Detached

Tables == {"projects", "bill_items"}
Operations == {"INSERT", "UPDATE", "DELETE"}
RecordIds == {"p1", "b1"}

\* A payload snapshot: its id field, one business field, and the generated
\* `amount` column of bill_items (0: the payload has no amount field).
MkPayload(i, v, a) == [id |-> i, val |-> v, amount |-> a]

MkChange(t, o, r, p) == [table |-> t, operation |-> o, record_id |-> r, payload |-> p]

\* The arguments queueChange is called with in the model.
Inputs ==
  { MkChange("projects", "INSERT", "p1", MkPayload("p1", 1, 0)),
    MkChange("projects", "UPDATE", "p1", MkPayload("p1", 2, 0)),
    MkChange("projects", "DELETE", "p1", MkPayload("p1", 1, 0)),
    MkChange("bill_items", "INSERT", "b1", MkPayload("b1", 1, 1)) }

Keys == Tables \X RecordIds

\* const { amount: _amount, ...cleanPayload } = item.payload
CleanPayload(p) == [id |-> p.id, val |-> p.val]

\* Mutant: only INSERT is routed to the upsert.
IsUpsertInsertOnly(item) == item.operation = "INSERT"

\* if (item.operation === 'INSERT' || item.operation === 'UPDATE')
IsUpsert(item) == item.operation = "INSERT" \/ item.operation = "UPDATE"

\* The row the remote call of an item addresses: upsert resolves the conflict
\* on the payload's id column, delete filters on record_id.
TargetKey(item) ==
  IF IsUpsert(item) THEN <<item.table, item.payload.id>>
  ELSE <<item.table, item.record_id>>

\* The remote store after the call of an item has been committed.
ApplyRemote(store, item) ==
  IF IsUpsert(item)
    THEN [store EXCEPT ![TargetKey(item)] = {CleanPayload(item.payload)}]
    ELSE [store EXCEPT ![TargetKey(item)] = {}]

\* Mutant: a plain insert, which the store refuses when the row exists.
RemoteRejectsExisting(store, item) == IsUpsert(item) /\ store[TargetKey(item)] # {}

\* Whether the remote store itself answers the call of an item with an error
\* because of the rows it holds: upsert with onConflict 'id' overwrites an
\* existing row, and delete().eq('id', ..) of no row deletes nothing.
RemoteRejects(store, item) == FALSE

\* The local record an entry is about: db[item.table], key item.record_id.
LocalKey(item) == <<item.table, item.record_id>>

\* Mutant: the timestamp is written with put, which creates the record.
SetSyncedPuts(store, k) ==
  [store EXCEPT ![k] = IF @ = {} THEN {[val |-> 0, synced |-> TRUE]}
                                 ELSE {[rec EXCEPT !.synced = TRUE] : rec \in @}]

\* targetTable.update(key, { synced_at }): changes that field of the record
\* with this key, and does nothing when there is no such record.
SetSynced(store, k) == [store EXCEPT ![k] = {[rec EXCEPT !.synced = TRUE] : rec \in @}]

IdleRun == [pc |-> "idle", snap |-> <<>>, removed |-> FALSE, failed |-> FALSE]

RemoveId(q, i) == SelectSeq(q, LAMBDA x : x # i)

\* A history counter that stops at `cap`.
Bump(n, cap) == IF n >= cap THEN n ELSE n + 1

\* ---------------------------------------------------------------- state
VARIABLES
  alive,        \* the page (the JavaScript process) is running
  online,       \* navigator.onLine
  log,          \* every entry ever added to sync_queue; its index is its Dexie id
  queue,        \* ids of the entries in db.sync_queue, in orderBy('id') order
  remote,       \* the Supabase tables: key -> the row stored (a set of at most one)
  runs,         \* the processQueue invocations: position, items left, removed any,
                \* and (until performSync is over) whether the loop was left by break
  mounted,      \* the effect of hook closure h is mounted (listeners and timer set)
  isSyncing,    \* the closure's guard flag
  perf,         \* position of the closure's performSync
  notified,     \* invalidateQueries calls made on behalf of the run's current cycle
  issued,       \* ids whose remote call has been issued since the page was loaded (history)
  succeeded,    \* ids whose remote call has returned without error (history)
  lastApplied,  \* id of the most recent successful remote call (history)
  reordered,    \* a successful call followed one for a higher id (history)
  fails,        \* failed remote calls per id, counted up to a cap (history)
  crashed,      \* the page has been killed at least once (history)
  rejected,     \* queueChange calls whose promise rejected, counted up to MaxReject (history)
  discarded,    \* a performSync call has returned at the guard during the closure's running cycle (history)
  local,        \* the Dexie record tables: key -> the record stored (a set of at most one)
  shutAt        \* id whose remote call was in flight when the effect was cleaned up, until the
                \* run has removed that entry or left the loop; else 0 (history)

vars == <<alive, online, log, queue, remote, runs, mounted, isSyncing, perf,
          notified, issued, succeeded, lastApplied, reordered, fails, crashed,
          rejected, discarded, shutAt, local>>

hist == <<issued, succeeded, lastApplied, reordered, fails, crashed>>

InitState ==
  /\ alive = TRUE
  /\ online \in BOOLEAN
  /\ log = <<>>
  /\ queue = <<>>
  /\ remote = [k \in Keys |-> {}]
  /\ runs = [r \in Runs |-> IdleRun]
  /\ mounted = [h \in Hooks |-> FALSE]
  /\ isSyncing = [h \in Hooks |-> FALSE]
  /\ perf = [h \in Hooks |-> "idle"]
  /\ notified = [r \in Runs |-> 0]
  /\ issued = {}
  /\ succeeded = {}
  /\ lastApplied = 0
  /\ reordered = FALSE
  /\ fails = [i \in 1..MaxEnq |-> 0]
  /\ crashed = FALSE
  /\ rejected = 0
  /\ discarded = [h \in Hooks |-> FALSE]
  /\ shutAt = [h \in Hooks |-> 0]

\* The page is opened on a device whose record tables are empty.
Init == InitState /\ local = [k \in Keys |-> {}]

\* ------------------------------------------------------- processQueue
\* The synchronous head of processQueue: the toArray() read is requested.
StartRun == [pc |-> "read", snap |-> <<>>, removed |-> FALSE, failed |-> FALSE]

\* The run moves on to the items `rest`: the remote call of the first one is
\* issued, or the loop is over and processQueue returns.
Advance(r, rest, rem) ==
  IF rest = <<>>
    THEN /\ runs' = [runs EXCEPT ![r] = [IdleRun EXCEPT !.removed = (r \in Hooks /\ rem)]]
         /\ perf' = IF r \in Hooks THEN [perf EXCEPT ![r] = "resume"] ELSE perf
         /\ UNCHANGED issued
    ELSE /\ runs' = [runs EXCEPT ![r] = [pc |-> "call", snap |-> rest, removed |-> rem, failed |-> FALSE]]
         /\ issued' = issued \cup {Head(rest)}
         /\ UNCHANGED perf

\* `break`: the loop is left and processQueue returns normally.
Break(r) ==
  /\ runs' = [runs EXCEPT ![r] = [IdleRun EXCEPT !.removed = (r \in Hooks /\ runs[r].removed),
                                                !.failed = (r \in Hooks)]]
  /\ perf' = IF r \in Hooks THEN [perf EXCEPT ![r] = "resume"] ELSE perf
  /\ shutAt' = IF r \in Hooks THEN [shutAt EXCEPT ![r] = 0] ELSE shutAt

\* Mutant: the queue is read newest first (orderBy('id').reverse()).
ReadQueueNewestFirst(r) ==
  /\ alive /\ runs[r].pc = "read"
  /\ Advance(r, [k \in 1..Len(queue) |-> queue[Len(queue) + 1 - k]], FALSE)
  /\ UNCHANGED <<alive, online, log, queue, remote, mounted, isSyncing, notified,
                 succeeded, lastApplied, reordered, fails, crashed>>
  /\ UNCHANGED <<rejected, discarded, shutAt, local>>

\* const queue = await db.sync_queue.orderBy('id').toArray(); if empty return
ReadQueue(r) ==
  /\ alive /\ runs[r].pc = "read"
  /\ Advance(r, queue, FALSE)
  /\ UNCHANGED <<alive, online, log, queue, remote, mounted, isSyncing, notified,
                 succeeded, lastApplied, reordered, fails, crashed>>
  /\ UNCHANGED <<rejected, discarded, shutAt, local>>

\* Mutant: performSync has a catch but no finally.
ReadFailsKeepsGuard(r) ==
  /\ alive /\ runs[r].pc = "read"
  /\ runs' = [runs EXCEPT ![r] = IdleRun]
  /\ perf' = IF r \in Hooks THEN [perf EXCEPT ![r] = "idle"] ELSE perf
  /\ UNCHANGED <<alive, online, log, queue, remote, mounted, isSyncing, notified, hist>>
  /\ discarded' = IF r \in Hooks THEN [discarded EXCEPT ![r] = FALSE] ELSE discarded
  /\ UNCHANGED <<rejected, shutAt, local>>

\* The read rejects: processQueue rejects.  performSync catches it and its
\* finally resets the guard; nobody awaits a run started by queueChange.
ReadFails(r) ==
  /\ alive /\ runs[r].pc = "read"
  /\ runs' = [runs EXCEPT ![r] = IdleRun]
  /\ perf' = IF r \in Hooks THEN [perf EXCEPT ![r] = "idle"] ELSE perf
  /\ isSyncing' = IF r \in Hooks THEN [isSyncing EXCEPT ![r] = FALSE] ELSE isSyncing
  /\ UNCHANGED <<alive, online, log, queue, remote, mounted, notified, hist>>
  /\ discarded' = IF r \in Hooks THEN [discarded EXCEPT ![r] = FALSE] ELSE discarded
  /\ UNCHANGED <<rejected, shutAt, local>>

\* Mutant: the upsert sends the fields of the local record as it is now.
RemoteOkRereads(r) ==
  /\ alive /\ runs[r].pc = "call"
  /\ LET i == Head(runs[r].snap)
         now == IF local[LocalKey(log[i])] = {} THEN log[i].payload.val
                ELSE (CHOOSE rec \in local[LocalKey(log[i])] : TRUE).val
     IN
       /\ ~RemoteRejects(remote, log[i])
       /\ remote' = ApplyRemote(remote, [log[i] EXCEPT !.payload.val = now])
       /\ runs' = [runs EXCEPT ![r].pc = "del"]
       /\ succeeded' = succeeded \cup {i}
       /\ lastApplied' = i
       /\ reordered' = (reordered \/ i < lastApplied)
  /\ UNCHANGED <<alive, online, log, queue, mounted, isSyncing, perf, notified,
                 issued, fails, crashed>>
  /\ UNCHANGED <<rejected, discarded, shutAt, local>>

\* The upsert or delete returns { error: null }.
RemoteOk(r) ==
  /\ alive /\ runs[r].pc = "call"
  /\ LET i == Head(runs[r].snap) IN
       /\ ~RemoteRejects(remote, log[i])
       /\ remote' = ApplyRemote(remote, log[i])
       /\ runs' = [runs EXCEPT ![r].pc = "del"]
       /\ succeeded' = succeeded \cup {i}
       /\ lastApplied' = i
       /\ reordered' = (reordered \/ i < lastApplied)
  /\ UNCHANGED <<alive, online, log, queue, mounted, isSyncing, perf, notified,
                 issued, fails, crashed>>
  /\ UNCHANGED <<rejected, discarded, shutAt, local>>

\* Mutant: a failed call is dropped from the queue as if it had been applied.
RemoteFailsDrops(r, cap) ==
  /\ alive /\ runs[r].pc = "call"
  /\ Break(r)
  /\ queue' = RemoveId(queue, Head(runs[r].snap))
  /\ fails' = [fails EXCEPT ![Head(runs[r].snap)] = Bump(@, cap)]
  /\ UNCHANGED <<alive, online, log, remote, mounted, isSyncing, notified,
                 issued, succeeded, lastApplied, reordered, crashed>>
  /\ UNCHANGED <<rejected, discarded, local>>

\* Mutant: a failed call is skipped (`continue`) and the loop goes on.
RemoteFailsSkips(r, cap) ==
  /\ alive /\ runs[r].pc = "call"
  /\ Advance(r, Tail(runs[r].snap), runs[r].removed)
  /\ fails' = [fails EXCEPT ![Head(runs[r].snap)] = Bump(@, cap)]
  /\ UNCHANGED <<alive, online, log, queue, remote, mounted, isSyncing, notified,
                 succeeded, lastApplied, reordered, crashed>>
  /\ UNCHANGED <<rejected, discarded, shutAt, local>>

\* The call returns an error object ("error") or throws ("throw"): either way
\* console.error and break.  The failure is counted up to `cap`.
RemoteFailsUpTo(r, cap) ==
  /\ alive /\ runs[r].pc = "call"
  /\ \E how \in {"error", "throw"} :
       /\ Break(r)
       /\ fails' = [fails EXCEPT ![Head(runs[r].snap)] = Bump(@, cap)]
  /\ UNCHANGED <<alive, online, log, queue, remote, mounted, isSyncing, notified,
                 issued, succeeded, lastApplied, reordered, crashed>>
  /\ UNCHANGED <<rejected, discarded, local>>

\* A failed call, remembered only as "this entry has failed".
RemoteFails(r) == RemoteFailsUpTo(r, 1)

\* A failed call, counted up to one past the retry ceiling.
RemoteFailsCounted(r) == RemoteFailsUpTo(r, Ceiling + 1)

\* Mutant: the run writes its snapshot back without the item it applied.
DeleteOkWritesBack(r) ==
  /\ alive /\ runs[r].pc = "del"
  /\ queue' = Tail(runs[r].snap)
  /\ runs' = [runs EXCEPT ![r].pc = "upd", ![r].removed = TRUE]
  /\ UNCHANGED <<alive, online, log, remote, mounted, isSyncing, perf, notified, hist>>
  /\ shutAt' = IF r \in Hooks THEN [shutAt EXCEPT ![r] = 0] ELSE shutAt
  /\ UNCHANGED <<rejected, discarded, local>>

\* await db.sync_queue.delete(item.id!)
DeleteOk(r) ==
  /\ alive /\ runs[r].pc = "del"
  /\ queue' = RemoveId(queue, Head(runs[r].snap))
  /\ runs' = [runs EXCEPT ![r].pc = "upd", ![r].removed = TRUE]
  /\ UNCHANGED <<alive, online, log, remote, mounted, isSyncing, perf, notified, hist>>
  /\ shutAt' = IF r \in Hooks THEN [shutAt EXCEPT ![r] = 0] ELSE shutAt
  /\ UNCHANGED <<rejected, discarded, local>>

\* The delete rejects: caught by the loop's catch, break.
DeleteFails(r) ==
  /\ alive /\ runs[r].pc = "del"
  /\ Break(r)
  /\ UNCHANGED <<alive, online, log, queue, remote, mounted, isSyncing, notified, hist>>
  /\ UNCHANGED <<rejected, discarded, local>>

\* await targetTable.update(item.record_id, { synced_at }) ; next item
UpdateOk(r) ==
  /\ alive /\ runs[r].pc = "upd"
  /\ Advance(r, Tail(runs[r].snap), runs[r].removed)
  /\ UNCHANGED <<alive, online, log, queue, remote, mounted, isSyncing, notified,
                 succeeded, lastApplied, reordered, fails, crashed>>
  /\ local' = SetSynced(local, LocalKey(log[Head(runs[r].snap)]))
  /\ UNCHANGED <<rejected, discarded, shutAt>>

\* The update rejects: caught by the loop's catch, break.
UpdateFails(r) ==
  /\ alive /\ runs[r].pc = "upd"
  /\ Break(r)
  /\ UNCHANGED <<alive, online, log, queue, remote, mounted, isSyncing, notified, hist>>
  /\ UNCHANGED <<rejected, discarded, local>>

\* -------------------------------------------------------- performSync
\* Mutant: the guard looks at the flag only.
GuardedSyncingOnly(h, on) == isSyncing[h]

\* Mutant: the guard looks at the connectivity only.
GuardedOfflineOnly(h, on) == ~on

\* if (isSyncing || !navigator.onLine) return;   (`on`: navigator.onLine)
Guarded(h, on) == isSyncing[h] \/ ~on

\* The hooks of `hs` whose performSync call passes the guard.
Starting(hs, on) == {h \in hs : ~Guarded(h, on)}

\* performSync is called on every hook of hs: those that pass the guard set
\* isSyncing and call processQueue, the others return at once.
CallPerformSync(hs, on) ==
  /\ isSyncing' = [h \in Hooks |-> IF h \in Starting(hs, on) THEN TRUE ELSE isSyncing[h]]
  /\ perf' = [h \in Hooks |-> IF h \in Starting(hs, on) THEN "pq" ELSE perf[h]]
  /\ runs' = [r \in Runs |-> IF r \in Starting(hs, on) THEN StartRun ELSE runs[r]]
  /\ notified' = [r \in Runs |-> IF r \in Starting(hs, on) THEN 0 ELSE notified[r]]
  /\ discarded' = [h \in Hooks |-> IF h \in Starting(hs, on) THEN FALSE
                                 ELSE IF h \in hs /\ on /\ isSyncing[h] THEN TRUE
                                 ELSE discarded[h]]

\* Mutant: performSync has no finally, the guard stays set after a cycle.
ResumeOkKeepsGuard(h) ==
  /\ alive /\ perf[h] = "resume"
  /\ notified' = [notified EXCEPT ![h] = @ + 1]
  /\ perf' = [perf EXCEPT ![h] = "idle"]
  /\ runs' = [runs EXCEPT ![h] = IdleRun]
  /\ UNCHANGED <<alive, online, log, queue, remote, mounted, isSyncing, hist>>
  /\ discarded' = [discarded EXCEPT ![h] = FALSE]
  /\ UNCHANGED <<rejected, shutAt, local>>

\* await queryClient.resumePausedMutations(); queryClient.invalidateQueries();
\* finally isSyncing = false
ResumeOk(h) ==
  /\ alive /\ perf[h] = "resume"
  /\ notified' = [notified EXCEPT ![h] = @ + 1]
  /\ perf' = [perf EXCEPT ![h] = "idle"]
  /\ isSyncing' = [isSyncing EXCEPT ![h] = FALSE]
  /\ runs' = [runs EXCEPT ![h] = IdleRun]
  /\ UNCHANGED <<alive, online, log, queue, remote, mounted, hist>>
  /\ discarded' = [discarded EXCEPT ![h] = FALSE]
  /\ UNCHANGED <<rejected, shutAt, local>>

\* resumePausedMutations rejects: catch, finally isSyncing = false
ResumeFails(h) ==
  /\ alive /\ perf[h] = "resume"
  /\ perf' = [perf EXCEPT ![h] = "idle"]
  /\ isSyncing' = [isSyncing EXCEPT ![h] = FALSE]
  /\ runs' = [runs EXCEPT ![h] = IdleRun]
  /\ UNCHANGED <<alive, online, log, queue, remote, mounted, notified, hist>>
  /\ discarded' = [discarded EXCEPT ![h] = FALSE]
  /\ UNCHANGED <<rejected, shutAt, local>>

\* ------------------------------------------------------------ useSync
\* The effect runs: listeners added, initial sync if online, timer set.  A new
\* closure takes slot h once the cycle of the slot's previous closure is over.
Mount(h) ==
  /\ alive /\ ~mounted[h] /\ perf[h] = "idle"
  /\ mounted' = [mounted EXCEPT ![h] = TRUE]
  /\ CallPerformSync({h}, online)
  /\ UNCHANGED <<alive, online, log, queue, remote, hist>>
  /\ shutAt' = [shutAt EXCEPT ![h] = 0]
  /\ UNCHANGED <<rejected, local>>

\* The effect's cleanup: listeners removed, interval cleared.
Cleanup(h) ==
  /\ alive /\ mounted[h]
  /\ mounted' = [mounted EXCEPT ![h] = FALSE]
  /\ UNCHANGED <<alive, online, log, queue, remote, runs, isSyncing, perf, notified, hist>>
  /\ shutAt' = [shutAt EXCEPT ![h] = IF runs[h].pc = "call" THEN Head(runs[h].snap) ELSE 0]
  /\ UNCHANGED <<rejected, discarded, local>>

\* Mutant: the cleanup does not clear the interval.
TickAfterCleanup(h) ==
  /\ alive
  /\ CallPerformSync({h}, online)
  /\ UNCHANGED <<alive, online, log, queue, remote, mounted, hist>>
  /\ UNCHANGED <<rejected, shutAt, local>>

\* setInterval(() => { if (navigator.onLine) performSync(); }, 30000)
Tick(h) ==
  /\ alive /\ mounted[h]
  /\ CallPerformSync({h}, online)
  /\ UNCHANGED <<alive, online, log, queue, remote, mounted, hist>>
  /\ UNCHANGED <<rejected, shutAt, local>>

\* The browser goes online: the "online" event reaches every mounted hook.
GoOnline ==
  /\ alive /\ ~online
  /\ online' = TRUE
  /\ CallPerformSync({h \in Hooks : mounted[h]}, TRUE)
  /\ UNCHANGED <<alive, log, queue, remote, mounted, hist>>
  /\ UNCHANGED <<rejected, shutAt, local>>

\* The browser goes offline: handleOffline only logs.
GoOffline ==
  /\ alive /\ online
  /\ online' = FALSE
  /\ UNCHANGED <<alive, log, queue, remote, runs, mounted, isSyncing, perf, notified, hist>>
  /\ UNCHANGED <<rejected, discarded, shutAt, local>>

\* -------------------------------------------------------- queueChange
FreeDetached == {d \in Detached : runs[d].pc = "idle"}

\* Mutant: a new entry replaces the queued entries of the same record.
QueueChangeCoalesces(c) ==
  /\ alive /\ Len(log) < MaxEnq
  /\ online => FreeDetached # {}
  /\ log' = Append(log, c)
  /\ queue' = Append(SelectSeq(queue, LAMBDA i : <<log[i].table, log[i].record_id>>
                                                    # <<c.table, c.record_id>>),
                     Len(log) + 1)
  /\ runs' = IF online
               THEN [runs EXCEPT ![CHOOSE d \in FreeDetached : TRUE] = StartRun]
               ELSE runs
  /\ UNCHANGED <<alive, online, remote, mounted, isSyncing, perf, notified, hist>>
  /\ UNCHANGED <<rejected, discarded, shutAt, local>>

\* Mutant: the id of the new entry is the number of queued entries plus one
\* (a count instead of the store's key generator).
QueueChangeCountsIds(c) ==
  /\ alive /\ Len(log) < MaxEnq
  /\ online => FreeDetached # {}
  /\ log' = Append(log, c)
  /\ queue' = Append(queue, Len(queue) + 1)
  /\ runs' = IF online
               THEN [runs EXCEPT ![CHOOSE d \in FreeDetached : TRUE] = StartRun]
               ELSE runs
  /\ UNCHANGED <<alive, online, remote, mounted, isSyncing, perf, notified, hist>>
  /\ UNCHANGED <<rejected, discarded, shutAt, local>>

\* await db.sync_queue.add({...}); if (navigator.onLine) syncEngine.processQueue()
QueueChange(c) ==
  /\ alive /\ Len(log) < MaxEnq
  /\ online => FreeDetached # {}
  /\ log' = Append(log, c)
  /\ queue' = Append(queue, Len(log) + 1)
  /\ runs' = IF online
               THEN [runs EXCEPT ![CHOOSE d \in FreeDetached : TRUE] = StartRun]
               ELSE runs
  /\ UNCHANGED <<alive, online, remote, mounted, isSyncing, perf, notified, hist>>
  /\ UNCHANGED <<rejected, discarded, shutAt, local>>

\* Mutant: the add is wrapped in a try/catch that logs and carries on.
QueueChangeSwallows(c) ==
  /\ alive /\ rejected < MaxReject
  /\ online => FreeDetached # {}
  /\ runs' = IF online
               THEN [runs EXCEPT ![CHOOSE d \in FreeDetached : TRUE] = StartRun]
               ELSE runs
  /\ UNCHANGED <<alive, online, log, queue, remote, mounted, isSyncing, perf, notified, hist>>
  /\ UNCHANGED <<rejected, discarded, shutAt, local>>

\* db.sync_queue.add rejects (quota exceeded, database closed): the await
\* throws, the promise of queueChange rejects, the lines after it never run.
QueueChangeFails(c) ==
  /\ alive /\ rejected < MaxReject
  /\ rejected' = rejected + 1
  /\ UNCHANGED <<alive, online, log, queue, remote, runs, mounted, isSyncing, perf,
                 notified, hist, discarded, shutAt, local>>

\* ------------------------------------------------------ crash, restart
\* Mutant: the queue lives in memory and is lost with the page.
CrashLosesQueue ==
  /\ alive
  /\ alive' = FALSE
  /\ queue' = <<>>
  /\ runs' = [r \in Runs |-> IdleRun]
  /\ mounted' = [h \in Hooks |-> FALSE]
  /\ isSyncing' = [h \in Hooks |-> FALSE]
  /\ perf' = [h \in Hooks |-> "idle"]
  /\ notified' = [r \in Runs |-> 0]
  /\ issued' = {}
  /\ crashed' = TRUE
  /\ UNCHANGED <<online, log, remote, succeeded, lastApplied, reordered, fails>>
  /\ discarded' = [h \in Hooks |-> FALSE]
  /\ shutAt' = [h \in Hooks |-> 0]
  /\ UNCHANGED <<rejected, local>>

\* The page is killed: every closure and pending callback is gone, IndexedDB
\* and the remote store stay.
Crash ==
  /\ alive
  /\ alive' = FALSE
  /\ runs' = [r \in Runs |-> IdleRun]
  /\ mounted' = [h \in Hooks |-> FALSE]
  /\ isSyncing' = [h \in Hooks |-> FALSE]
  /\ perf' = [h \in Hooks |-> "idle"]
  /\ notified' = [r \in Runs |-> 0]
  /\ issued' = {}
  /\ crashed' = TRUE
  /\ UNCHANGED <<online, log, queue, remote, succeeded, lastApplied, reordered, fails>>
  /\ discarded' = [h \in Hooks |-> FALSE]
  /\ shutAt' = [h \in Hooks |-> 0]
  /\ UNCHANGED <<rejected, local>>

\* The page is loaded again.
Restart ==
  /\ ~alive
  /\ alive' = TRUE
  /\ UNCHANGED <<online, log, queue, remote, runs, mounted, isSyncing, perf, notified, hist>>
  /\ UNCHANGED <<rejected, discarded, shutAt, local>>

\* While the page is down the connectivity may change unseen.
Flap ==
  /\ ~alive
  /\ online' = ~online
  /\ UNCHANGED <<alive, log, queue, remote, runs, mounted, isSyncing, perf, notified, hist>>
  /\ UNCHANGED <<rejected, discarded, shutAt, local>>

\* Every step but a failing remote call.
Common ==
  \/ \E r \in Runs : ReadQueue(r)
  \/ \E r \in Runs : ReadFails(r)
  \/ \E r \in Runs : RemoteOk(r)
  \/ \E r \in Runs : DeleteOk(r)
  \/ \E r \in Runs : DeleteFails(r)
  \/ \E r \in Runs : UpdateOk(r)
  \/ \E r \in Runs : UpdateFails(r)
  \/ \E h \in Hooks : ResumeOk(h)
  \/ \E h \in Hooks : ResumeFails(h)
  \/ \E h \in Hooks : Mount(h)
  \/ \E h \in Hooks : Cleanup(h)
  \/ \E h \in Hooks : Tick(h)
  \/ GoOnline
  \/ GoOffline
  \/ \E c \in Inputs : QueueChange(c)
  \/ Crash
  \/ Restart
  \/ Flap

Next == Common \/ \E r \in Runs : RemoteFails(r)

Spec == Init /\ [][Next]_vars

\* The same program with the failed calls of every entry counted.
NextCount == Common \/ \E r \in Runs : RemoteFailsCounted(r)

SpecCount == Init /\ [][NextCount]_vars

\* The same program with the durable write of queueChange able to reject.
NextAdd == Next \/ \E c \in Inputs : QueueChangeFails(c)

SpecAdd == Init /\ [][NextAdd]_vars

\* ------------------------------------------------------------ helpers
Enqueued == 1..Len(log)

InSeq(q, i) == \E k \in 1..Len(q) : q[k] = i

Active == {r \in Runs : runs[r].pc # "idle"}

\* No processQueue run and no performSync is in progress.
Quiet == Active = {} /\ \A h \in Hooks : perf[h] = "idle"

\* The run's cycle ends in this step (and the page is not being killed): a
\* performSync reaches its finally, a run started by queueChange returns.
CycleEnds(r) ==
  /\ alive'
  /\ IF r \in Hooks THEN perf[r] # "idle" /\ perf'[r] = "idle"
                    ELSE runs[r].pc # "idle" /\ runs'[r].pc = "idle"

\* The remote call of run r fails in this step.
CallFails(r) == alive' /\ runs[r].pc = "call" /\ runs'[r].pc = "idle"

\* The last entry enqueued for a record, 0 if there is none.
LastFor(k) ==
  LET hits == {i \in Enqueued : <<log[i].table, log[i].record_id>> = k}
  IN IF hits = {} THEN 0 ELSE CHOOSE i \in hits : \A j \in hits : j <= i

\* What the remote store holds for a record once its last entry is applied.
Expected(k) ==
  IF IsUpsert(log[LastFor(k)]) THEN {CleanPayload(log[LastFor(k)].payload)} ELSE {}

\* ------------------------------------------------------------- claims
\* C1: an entry is out of the queue only if a remote call for it returned
\* without error, and a run is never past an entry that is still queued: the
\* entries it has handled (all ids below its current one, and the current one
\* once its delete has returned) are gone from the queue.
C1_RemovedIffApplied ==
  /\ \A i \in Enqueued : ~InSeq(queue, i) => i \in succeeded
  /\ \A r \in Active : runs[r].pc # "read" =>
       \A k \in 1..Len(queue) :
         IF runs[r].pc = "upd" THEN queue[k] > Head(runs[r].snap)
                               ELSE queue[k] >= Head(runs[r].snap)

C1_Witness ==
  \E r \in Runs : /\ runs[r].pc = "call" /\ Head(runs[r].snap) = 2
                  /\ 1 \in succeeded /\ ~InSeq(queue, 1) /\ runs[r].removed

\* C2: once the queue is fully drained, the successful remote calls were made
\* in ascending id order.
C2_AscendingApply == (Len(log) > 0 /\ queue = <<>> /\ Quiet /\ ~crashed) => ~reordered

\* C3: at most one processQueue run is active at any instant.
C3_SingleFlight == Cardinality(Active) <= 1

\* C4: the remote call of an entry is issued only when every entry with a
\* lower id has had a successful call, and a failing call removes nothing.
C4_Order == \A j \in issued : \A i \in 1..(j - 1) : i \in succeeded

C4_FailKeeps == \A r \in Runs : CallFails(r) => queue' = queue

C4_BackPressure == []C4_Order /\ [][C4_FailKeeps]_vars

C4_Witness ==
  /\ queue = <<1, 2>> /\ Quiet /\ fails[1] = 1
  /\ 1 \in issued /\ 1 \notin succeeded /\ 2 \notin issued

\* C5: an entry whose remote call has failed more often than the ceiling is
\* no longer in the queue (it was moved to the dead-letter set), so the
\* entries behind it are not blocked.
C5_PoisonIsolated == \A i \in Enqueued : fails[i] > Ceiling => ~InSeq(queue, i)

\* C8: when the queue is empty and nothing runs, the remote row of every
\* record that was ever enqueued is the effect of its last entry.
C8_LastWriteWins ==
  (queue = <<>> /\ Quiet /\ ~crashed) =>
     \A k \in Keys : LastFor(k) # 0 => remote[k] = Expected(k)

\* C9: a cycle that removed at least one entry ends with exactly one
\* invalidateQueries call made for it.
C9_NotifiedOnce ==
  [][\A r \in Runs : (CycleEnds(r) /\ runs[r].removed) => notified'[r] = 1]_vars

RemoteFailsOnce(r) ==
  /\ runs[r].pc = "call" /\ fails[Head(runs[r].snap)] = 0
  /\ RemoteFails(r)

CrashOnce == ~crashed /\ Crash

LiveNext ==
  \/ \E r \in Runs : ReadQueue(r)
  \/ \E r \in Runs : RemoteOk(r)
  \/ \E r \in Runs : RemoteFailsOnce(r)
  \/ \E r \in Runs : DeleteOk(r)
  \/ \E r \in Runs : UpdateOk(r)
  \/ \E h \in Hooks : ResumeOk(h)
  \/ \E h \in Hooks : Mount(h)
  \/ \E h \in Hooks : Tick(h)
  \/ GoOnline
  \/ GoOffline
  \/ \E c \in Inputs : QueueChange(c)
  \/ CrashOnce
  \/ Restart

\* Every await of a run returns, the interval timer keeps firing while the
\* effect is mounted, a killed page is loaded again and its effect runs.
Fairness ==
  /\ \A r \in Runs : /\ WF_vars(ReadQueue(r)) /\ WF_vars(RemoteOk(r))
                     /\ WF_vars(DeleteOk(r)) /\ WF_vars(UpdateOk(r))
  /\ \A h \in Hooks : WF_vars(ResumeOk(h)) /\ WF_vars(Tick(h)) /\ WF_vars(Mount(h))
  /\ WF_vars(Restart)

LiveSpec == Init /\ [][LiveNext]_vars /\ Fairness

\* C6: no entry leaves the queue without a successful remote call, and if
\* the device ends up online for good, the queue ends up empty for good:
\* every entry has been applied and removed.
C6_Drained == <>[]online => <>[](queue = <<>>)

C6_EventualDelivery ==
  /\ [](\A i \in Enqueued : ~InSeq(queue, i) => i \in succeeded)
  /\ C6_Drained

C6_Witness ==
  /\ Len(log) = MaxEnq /\ queue = <<>> /\ Quiet
  /\ \A i \in Enqueued : fails[i] = 1 /\ i \in succeeded

\* C7: killing the page changes neither the queue nor its order, the queue
\* is always in ascending id order, and if the device ends up online for
\* good, the remote call of every entry that was queued while the page was
\* down is issued again after the restart.
C7_CrashKeeps == (alive /\ ~alive') => (queue' = queue /\ log' = log)

C7_Sorted == \A k \in 1..(Len(queue) - 1) : queue[k] < queue[k + 1]

C7_Retried ==
  <>[]online =>
    \A i \in 1..MaxEnq : [](~alive /\ InSeq(queue, i) => <>(i \in issued))

C7_AtLeastOnce == [][C7_CrashKeeps]_vars /\ []C7_Sorted /\ C7_Retried

\* The page was killed after the remote call of entry 1 had succeeded and
\* before its delete from the queue.
C7_Witness == ~alive /\ queue = <<1, 2>> /\ 1 \in succeeded

\* C11: the scenario "queueChange(projects, p1, INSERT), then
\* queueChange(bill_items, b1, INSERT) while offline, then online".  From the
\* state where both are queued, the device is offline and no remote call has
\* been made, if the device ends up online for good (and nothing else is
\* enqueued), the queue ends up empty with both rows in the remote store;
\* and the bill item is never applied before its project.
C11_Scenario ==
  << MkChange("projects", "INSERT", "p1", MkPayload("p1", 1, 0)),
     MkChange("bill_items", "INSERT", "b1", MkPayload("b1", 1, 1)) >>

C11_Start ==
  /\ alive /\ ~online /\ ~crashed
  /\ log = C11_Scenario /\ queue = <<1, 2>>
  /\ issued = {} /\ succeeded = {} /\ \A i \in 1..MaxEnq : fails[i] = 0

C11_Done ==
  /\ queue = <<>> /\ succeeded = {1, 2}
  /\ remote[<<"projects", "p1">>] = {[id |-> "p1", val |-> 1]}
  /\ remote[<<"bill_items", "b1">>] = {[id |-> "b1", val |-> 1]}

C11_InOrder ==
  (Len(log) >= 2 /\ SubSeq(log, 1, 2) = C11_Scenario) => (2 \in succeeded => 1 \in succeeded)

C11_OfflineThenOnline ==
  /\ []C11_InOrder
  /\ <>[]online => [](C11_Start => <>(Len(log) > 2 \/ C11_Done))

C11_Witness ==
  /\ log = C11_Scenario /\ C11_Done /\ online /\ Quiet
  /\ ~crashed /\ \A i \in 1..MaxEnq : fails[i] = 0

\* C12: in the step in which the promise of a queueChange call rejects
\* because db.sync_queue.add rejected, the queue and the log of entries are
\* unchanged and no processQueue run is started; a run is started by
\* queueChange only in a step that adds an entry and rejects nothing.
C12_Step ==
  /\ rejected' # rejected => (queue' = queue /\ log' = log /\ runs' = runs)
  /\ \A d \in Detached :
       (runs[d].pc = "idle" /\ runs'[d].pc = "read") =>
          /\ Len(log') = Len(log) + 1
          /\ queue' = Append(queue, Len(log) + 1)
          /\ rejected' = rejected

C12_AddFailurePropagates == [][C12_Step]_vars

C12_Witness ==
  /\ rejected = 1 /\ online /\ alive /\ log = <<>> /\ queue = <<>>
  /\ \A d \in Detached : runs[d].pc = "idle"

\* C13: a processQueue run never ends with a rejection that nobody absorbs.
\* The read at the start of run r rejects in this step: the run is over
\* without having gone through the loop (a performSync skips its resume and
\* notify steps; a run started by queueChange ends with entries queued).
C13_ReadRejects(r) ==
  /\ alive' /\ runs[r].pc = "read" /\ runs'[r].pc = "idle"
  /\ IF r \in Hooks THEN perf'[r] = "idle" ELSE queue # <<>>

\* Only a run awaited inside the try of performSync has its rejection caught.
C13_Absorbed == [][\A r \in Runs : C13_ReadRejects(r) => r \in Hooks]_vars

\* C14: a performSync call that finds the guard held returns at once: the
\* step changes neither the run, the performSync position nor the guard of
\* that closure, issues no remote call and touches neither the queue nor the
\* remote store.  A run is
\* (re)started only by a call that finds the guard free, and the step that
\* ends a cycle during which a call was discarded starts no cycle: the guard
\* is free and the hook's run is idle after it.
C14_Discard(h) == isSyncing[h] /\ discarded'[h] /\ ~discarded[h]

C14_Step ==
  \A h \in Hooks :
    /\ C14_Discard(h) =>
          /\ runs'[h] = runs[h] /\ perf'[h] = perf[h] /\ isSyncing'[h] = isSyncing[h]
          /\ issued' = issued /\ queue' = queue /\ remote' = remote
    /\ (runs'[h].pc = "read" /\ runs[h].pc # "read") => ~isSyncing[h]
    /\ (CycleEnds(h) /\ discarded[h]) => (runs'[h].pc = "idle" /\ ~isSyncing'[h])

C14_TriggerDiscarded == [][C14_Step]_vars

C14_Witness ==
  \E h \in Hooks : discarded[h] /\ perf[h] = "resume" /\ online /\ mounted[h]

\* C15: the step in which a remote call of a run fails (error value or
\* exception: the call is over and the run does not go on to delete the
\* entry) ends that run: it issues no further remote call, removes
\* nothing, and leaves every entry of the queue where it is, in order.  No
\* run is past its first failed call: a run that is in its loop has had
\* every call of the cycle succeed.
C15_CallFailed(r) ==
  alive' /\ runs[r].pc = "call" /\ runs'[r] # runs[r] /\ runs'[r].pc # "del"

C15_Step ==
  \A r \in Runs :
    C15_CallFailed(r) =>
      /\ runs'[r].pc = "idle" /\ runs'[r].snap = <<>>
      /\ issued' = issued /\ succeeded' = succeeded
      /\ queue' = queue /\ remote' = remote
      /\ fails'[Head(runs[r].snap)] >= 1

C15_LoopOnlyAfterSuccess ==
  \A r \in Runs :
    (runs[r].pc \in {"call", "del", "upd"} /\ ~crashed) =>
       \A i \in Enqueued :
         (i < Head(runs[r].snap) /\ ~InSeq(queue, i)) => i \in succeeded

C15_StopAtFirstFailure == [][C15_Step]_vars /\ []C15_LoopOnlyAfterSuccess

C15_Witness ==
  /\ queue = <<1, 2>> /\ fails[1] = 1 /\ Active = {} /\ alive /\ ~crashed
  /\ 2 \notin issued /\ succeeded = {}
  /\ \E h \in Hooks : perf[h] = "resume" /\ runs[h].failed

\* C16: enqueues interleave safely with running cycles.  Every entry ever
\* enqueued is in the queue or has had a successful remote call; a step that
\* enqueues appends the new entry and moves no run and no snapshot; a step
\* that removes anything removes exactly the one entry whose call the
\* removing run has just had succeed.
C16_Kept == \A i \in Enqueued : InSeq(queue, i) \/ i \in succeeded

C16_Step ==
  /\ Len(log') > Len(log) =>
        /\ queue' = Append(queue, Len(log) + 1)
        /\ \A r \in Active : runs'[r] = runs[r]
  /\ (Len(log') = Len(log) /\ queue' # queue) =>
        \E r \in Runs : /\ runs[r].pc = "del"
                         /\ Head(runs[r].snap) \in succeeded
                         /\ InSeq(queue, Head(runs[r].snap))
                         /\ queue' = RemoveId(queue, Head(runs[r].snap))

C16_EnqueueInterleaves == []C16_Kept /\ [][C16_Step]_vars

\* A run that read [1] has removed entry 1; entry 2, enqueued after the
\* read, is queued and not yet applied.
C16_Witness ==
  \E r \in Runs : /\ runs[r].pc = "upd" /\ runs[r].snap = <<1>>
                   /\ queue = <<2>> /\ 2 \notin succeeded

\* C17: a processQueue run that finishes without a failure leaves the queue
\* empty.  With a local store that does not fail, a run leaves its loop from
\* the read (nothing queued) or after the update that follows its last
\* successful call; any other exit is the break after a failed remote call.
C17_FinishesClean(r) ==
  alive' /\ runs[r].pc \in {"read", "upd"} /\ runs'[r].pc = "idle"

C17_IdleOnlyWhenEmpty == [][\A r \in Runs : C17_FinishesClean(r) => queue' = <<>>]_vars

\* C19: when the effect of a closure is cleaned up while a remote call of its
\* cycle is in flight, that cycle does not go on to remove the entry of
\* that call from the queue.
C19_RemovesInFlight(h) ==
  /\ shutAt[h] # 0 /\ alive'
  /\ runs[h].pc = "del" /\ Head(runs[h].snap) = shutAt[h] /\ runs'[h].pc = "upd"
  /\ InSeq(queue, shutAt[h]) /\ ~InSeq(queue', shutAt[h])

C19_ShutdownKeeps == [][\A h \in Hooks : ~C19_RemovesInFlight(h)]_vars

\* C20: invalidateQueries is called at most once for a cycle, and only for
\* a cycle whose processQueue run was not stopped by a failure.
C20_NotifiedOnlyOnSuccess ==
  [][\A h \in Hooks :
       notified'[h] > notified[h] => (notified[h] = 0 /\ ~runs[h].failed)]_vars

\* C21: a step that enqueues adds exactly one entry, whose id is greater
\* than every id handed out before (those of removed entries included); the
\* ids in the queue are strictly ascending (hence unique); and a step never
\* changes the relative order of the entries that stay queued.
C21_Ascending ==
  /\ \A k \in 1..Len(queue) : queue[k] \in Enqueued
  /\ \A k \in 1..(Len(queue) - 1) : queue[k] < queue[k + 1]

C21_Step ==
  /\ Len(log') >= Len(log) /\ SubSeq(log', 1, Len(log)) = log
  /\ Len(log') > Len(log) =>
        /\ Len(log') = Len(log) + 1
        /\ queue' = Append(queue, Len(log'))
        /\ \A i \in Enqueued : i < Len(log')
  /\ Len(log') = Len(log) =>
        \A i, j \in Enqueued :
          (InSeq(queue', i) /\ InSeq(queue', j)) =>
             /\ InSeq(queue, i) /\ InSeq(queue, j)
             /\ \A a, b \in 1..Len(queue), x, y \in 1..Len(queue') :
                  (queue[a] = i /\ queue[b] = j /\ queue'[x] = i /\ queue'[y] = j)
                     => (a < b <=> x < y)

C21_SequenceMonotone == []C21_Ascending /\ [][C21_Step]_vars

\* Entry 1 was applied and removed before entry 2 was enqueued: its id is
\* not handed out again.
C21_Witness == Len(log) = 2 /\ queue = <<2>> /\ succeeded = {1} /\ issued = {1}

\* C22: nothing coalesces entries.  A step that enqueues lengthens the queue
\* by one whatever it already holds; a run's snapshot is the whole queue as
\* read; and a run goes from an entry it applied to the very next entry of
\* its snapshot, so it issues one call per entry, in id order.
C22_Step ==
  /\ Len(log') > Len(log) =>
        /\ Len(queue') = Len(queue) + 1
        /\ \A k \in 1..Len(queue) : queue'[k] = queue[k]
  /\ \A r \in Runs :
        /\ (runs[r].pc = "read" /\ runs'[r].pc = "call") => runs'[r].snap = queue
        /\ (runs[r].pc = "upd" /\ runs'[r].pc = "call") =>
              /\ runs'[r].snap = Tail(runs[r].snap)
              /\ issued' = issued \cup {Head(Tail(runs[r].snap))}

C22_NoCoalescing == [][C22_Step]_vars

\* Two entries for the same record were both queued, applied in enqueue
\* order with no failed call, and removed.
C22_Witness ==
  /\ Len(log) = 2 /\ log[1].table = log[2].table /\ log[1].record_id = log[2].record_id
  /\ queue = <<>> /\ succeeded = {1, 2} /\ lastApplied = 2 /\ ~reordered
  /\ \A i \in 1..MaxEnq : fails[i] = 0
  /\ Cardinality(Active) = 1 /\ \E r \in Active : runs[r].pc = "upd" /\ runs[r].snap = <<2>>

\* C24: the step in which the remote call of an entry succeeds changes at
\* most one row of the remote store, in the entry's table.  For an INSERT or
\* UPDATE entry that row is the one with the payload's id and it exists
\* afterwards (an upsert, never a delete); for a DELETE entry it is the row
\* with the entry's record_id and it does not exist afterwards.
C24_Applied(r) == alive' /\ runs[r].pc = "call" /\ runs'[r].pc = "del"

C24_Routed(e) ==
  LET k == IF e.operation = "DELETE" THEN <<e.table, e.record_id>>
                                     ELSE <<e.table, e.payload.id>>
  IN /\ \A o \in Keys \ {k} : remote'[o] = remote[o]
     /\ e.operation \in {"INSERT", "UPDATE"} => remote'[k] # {}
     /\ e.operation = "DELETE" => remote'[k] = {}

C24_OperationRouting ==
  [][\A r \in Runs : C24_Applied(r) => C24_Routed(log[Head(runs[r].snap)])]_vars

\* The delete of a row that an earlier insert had stored has succeeded.
C24_Witness ==
  \E r \in Runs :
    /\ runs[r].pc = "del" /\ Head(runs[r].snap) = 2 /\ succeeded = {1, 2}
    /\ log[1].operation = "INSERT" /\ log[2].operation = "DELETE"
    /\ log[1].table = log[2].table /\ log[1].record_id = log[2].record_id
    /\ \A k \in Keys : remote[k] = {}

\* C25: every queued entry carries an attempts counter equal to the number
\* of failed remote calls made for it (an entry without the field counts as
\* carrying 0).
C25_Attempts(e) == IF "attempts" \in DOMAIN e THEN e.attempts ELSE 0

C25_AttemptsCounted ==
  \A i \in Enqueued : InSeq(queue, i) => C25_Attempts(log[i]) = fails[i]

\* C26: in a step that begins and ends with navigator.onLine false, no
\* processQueue run is started and no guard is taken, whatever trigger
\* arrives; a step that enqueues then only appends the entry: it moves no
\* run, issues no remote call and leaves the remote store alone.
C26_Step ==
  (~online /\ ~online') =>
     /\ \A r \in Runs : runs'[r].pc = "read" => runs[r].pc = "read"
     /\ \A h \in Hooks : (isSyncing'[h] => isSyncing[h]) /\ (perf'[h] = "pq" => perf[h] = "pq")
     /\ Len(log') > Len(log) =>
           /\ queue' = Append(queue, Len(log'))
           /\ runs' = runs /\ issued' = issued /\ remote' = remote

C26_NoDrainOffline == [][C26_Step]_vars

\* Offline with the effect mounted: two entries were enqueued and nothing
\* has been started or sent.
C26_Witness ==
  /\ alive /\ ~online /\ \E h \in Hooks : mounted[h]
  /\ queue = <<1, 2>> /\ issued = {} /\ succeeded = {} /\ Quiet /\ ~crashed

\* C28: the guard of a closure is set exactly while a performSync of that
\* closure is between its guard test and its finally.
C28_GuardIffRunning == \A h \in Hooks : isSyncing[h] <=> perf[h] # "idle"

\* Mounted and online with an entry queued and nothing sent: the cycle of
\* the closure ended when its processQueue rejected at the read (or found
\* nothing queued), nothing runs and the guard is free.
C28_Witness ==
  \E h \in Hooks :
    /\ alive /\ online /\ mounted[h] /\ ~isSyncing[h] /\ perf[h] = "idle"
    /\ queue = <<1>> /\ Len(log) = 1 /\ issued = {} /\ Active = {} /\ ~crashed

\* C30: a step that begins and ends with the effect of a closure cleaned up
\* starts no performSync and no processQueue run of that closure and does
\* not take its guard; only what was already running goes on.
C30_Step ==
  \A h \in Hooks :
    (~mounted[h] /\ ~mounted'[h]) =>
       /\ perf'[h] = "pq" => perf[h] = "pq"
       /\ isSyncing'[h] => isSyncing[h]
       /\ runs'[h].pc = "read" => runs[h].pc = "read"

C30_NoCycleAfterCleanup == [][C30_Step]_vars

\* The closure completed a cycle and was then cleaned up; the device is
\* online with an entry queued, and nothing of the closure runs.
C30_Witness ==
  \E h \in Hooks :
    /\ alive /\ online /\ ~mounted[h] /\ notified[h] = 1 /\ perf[h] = "idle"
    /\ queue # <<>> /\ Active = {}

\* --------------------------------------------------- the record tables
\* The fair runs' environment again, on a device that holds records: the
\* application edits and deletes the local project p1 between the steps of
\* a cycle, the synced_at update may reject, and queueChange is also called
\* with a payload whose id is not the record id it is given.
EditKey == <<"projects", "p1">>

LocalAtStart ==
  [k \in Keys |-> IF k[1] = "projects" THEN {[val |-> 1, synced |-> FALSE]} ELSE {}]

InitLocal == InitState /\ local = LocalAtStart

\* db.projects.put({ id: 'p1', ... }) by the application
LocalPut(v) ==
  /\ alive /\ local[EditKey] # {[val |-> v, synced |-> FALSE]}
  /\ local' = [local EXCEPT ![EditKey] = {[val |-> v, synced |-> FALSE]}]
  /\ UNCHANGED <<alive, online, log, queue, remote, runs, mounted, isSyncing, perf,
                 notified, hist, rejected, discarded, shutAt>>

\* db.projects.delete('p1') by the application
LocalDelete ==
  /\ alive /\ local[EditKey] # {}
  /\ local' = [local EXCEPT ![EditKey] = {}]
  /\ UNCHANGED <<alive, online, log, queue, remote, runs, mounted, isSyncing, perf,
                 notified, hist, rejected, discarded, shutAt>>

MismatchedInputs == { MkChange("projects", "UPDATE", "p1", MkPayload("b1", 2, 0)) }

NextLocal ==
  \/ LiveNext
  \/ \E r \in Runs : UpdateFails(r)
  \/ \E c \in MismatchedInputs : QueueChange(c)
  \/ \E v \in {1, 2} : LocalPut(v)
  \/ LocalDelete

SpecLocal == InitLocal /\ [][NextLocal]_vars

\* C23: the entries of the log never change once added, whatever is done to
\* the local records, and the row an upsert stores is the payload the entry
\* was enqueued with, less its `amount` field, whatever the local record
\* holds when the call is made.
C23_Sent(r) == alive' /\ runs[r].pc = "call" /\ runs'[r].pc = "del"

C23_Step ==
  /\ SubSeq(log', 1, Len(log)) = log
  /\ \A r \in Runs :
       LET e == log[Head(runs[r].snap)] IN
         (C23_Sent(r) /\ e.operation \in {"INSERT", "UPDATE"}) =>
            remote'[<<e.table, e.payload.id>>] = {[id |-> e.payload.id, val |-> e.payload.val]}

C23_PayloadIsSnapshot == [][C23_Step]_vars

\* The upsert of an entry for project p1 has stored the payload's value
\* while the local record holds another one.
C23_Witness ==
  \E r \in Runs :
    /\ runs[r].pc = "del" /\ log[Head(runs[r].snap)] \in Inputs
    /\ LocalKey(log[Head(runs[r].snap)]) = EditKey
    /\ log[Head(runs[r].snap)].operation = "UPDATE"
    /\ local[EditKey] = {[val |-> 1, synced |-> FALSE]}
    /\ remote[EditKey] = {[id |-> "p1", val |-> 2]}

\* C27: the row an upsert writes is the row of the entry's table whose id
\* is the entry's record_id, and no other row changes.
C27_Upserted(r) ==
  /\ alive' /\ runs[r].pc = "call" /\ runs'[r].pc = "del"
  /\ log[Head(runs[r].snap)].operation \in {"INSERT", "UPDATE"}

C27_KeyIsRecordId ==
  [][\A r \in Runs :
       LET e == log[Head(runs[r].snap)] IN
         C27_Upserted(r) =>
            /\ remote'[<<e.table, e.record_id>>] # {}
            /\ \A o \in Keys \ {<<e.table, e.record_id>>} : remote'[o] = remote[o]]_vars

\* C29: a drain's steps on one entry leave the local store as it was but
\* for two writes: the queue delete removes that entry, and the update
\* marks the record <<table, record_id>> as synced when there is one.  No
\* step creates or deletes a record or touches another one, a remote call
\* (failing or not) writes nothing locally, and once the entry is removed no
\* later step of the run (a failing update included) puts it back.
C29_Marked(store, k) ==
  [o \in Keys |-> IF o = k THEN {[val |-> rec.val, synced |-> TRUE] : rec \in store[o]}
                           ELSE store[o]]

C29_InQueue(q, i) == \E n \in 1..Len(q) : q[n] = i

C29_Step ==
  \A r \in Runs :
    (alive /\ alive' /\ runs'[r] # runs[r] /\ runs[r].pc \in {"call", "del", "upd"}) =>
      LET i == Head(runs[r].snap)
          k == LocalKey(log[i])
      IN  /\ runs[r].pc = "call" => (local' = local /\ queue' = queue)
          /\ runs[r].pc = "del" =>
                /\ local' = local
                /\ IF runs'[r].pc = "upd" THEN queue' = RemoveId(queue, i)
                                          ELSE queue' = queue
          /\ runs[r].pc = "upd" =>
                /\ queue' = queue /\ ~C29_InQueue(queue', i)
                /\ local' \in {local, C29_Marked(local, k)}
                /\ runs'[r].pc = "call" => local' = C29_Marked(local, k)

C29_DrainFrame == [][C29_Step]_vars

\* Both entries were drained and every run is over: one entry's record is
\* marked, the other entry had no local record and still has none.
C29_Witness ==
  /\ Len(log) = 2 /\ queue = <<>>
  /\ \A r \in Runs : runs[r].pc = "idle"
  /\ \E rec \in local[LocalKey(log[1])] : rec.synced
  /\ local[LocalKey(log[2])] = {}

\* ------------------------------------------------- no answer from the net
\* The fair runs again, except that nothing makes a remote call return: the
\* supabase call is awaited with no timeout and no abort signal, so only the
\* local awaits, the timer, the mount and the restart are sure to happen.
HangFairness ==
  /\ \A r \in Runs : WF_vars(ReadQueue(r)) /\ WF_vars(DeleteOk(r)) /\ WF_vars(UpdateOk(r))
  /\ \A h \in Hooks : WF_vars(ResumeOk(h)) /\ WF_vars(Tick(h)) /\ WF_vars(Mount(h))
  /\ WF_vars(Restart)

HangSpec == Init /\ [][LiveNext]_vars /\ HangFairness

\* C18: the guard of a closure, once set, is eventually reset.
C18_GuardReleased == \A h \in Hooks : [](isSyncing[h] => <>(~isSyncing[h]))

====
